---- MODULE Spec2Model ----
(***************************************************************************)
(* Mapbox vector tile decoder (src/src/tile.ts, the protobuf-ts variant,   *)
(* lines 1-376): VectorTile, Layer, Feature, classifyRings, signedArea.    *)
(*                                                                         *)
(* The byte buffer is a sequence of bytes; the reader's cursor `pos` is    *)
(* 0-based as in the source (buf[pos] is b[pos + 1] here) and is shared by *)
(* the tile, its layers and every feature made from them.                  *)
(***************************************************************************)
EXTENDS Integers, Sequences, FiniteSets, TLC

VARIABLES
    buf,      \* the bytes handed to `new VectorTile(bytes)`
    pos,      \* BinaryReader.pos, the one cursor every object shares
    tile,     \* what the caller holds after `new VectorTile`: NoTile or [layers]
    scanned,  \* history: the Layer objects the constructor built, in order
    held,     \* the Feature objects the caller holds (two handles)
    ringList, \* the rings handed to classifyRings when it is called on its own
    last,     \* the last call and its outcome
    loop      \* the decoding loop followed pass by pass, when one is

vars == <<buf, pos, tile, scanned, held, ringList, last, loop>>

----------------------------------------------------------------------------
(* Numbers *)

RECURSIVE Pow2(_)
Pow2(n) == IF n = 0 THEN 1 ELSE 2 * Pow2(n - 1)

Max(a, b) == IF a >= b THEN a ELSE b
Min(a, b) == IF a <= b THEN a ELSE b

\* Number.MAX_SAFE_INTEGER and Number.MIN_SAFE_INTEGER are 2^53 - 1 and its
\* negation; TLC's integers are 32 bits wide, so the model takes the largest
\* value it has.  Every coordinate and every long of the buffers drawn below
\* is far inside this range, as it is far inside the source's.
MAX_SAFE_INTEGER == 2147483647
MIN_SAFE_INTEGER == -2147483647

----------------------------------------------------------------------------
(* BinaryReader of @protobuf-ts/runtime, as tile.ts uses it.  Every read   *)
(* returns [pos, err, v]: the cursor it leaves, "" or the error thrown,    *)
(* and the value read.  A step that goes on from the result of a read is   *)
(* an operator taking that result as its argument.                         *)

\* the element of a one-element set: { f(x) : x \in { e } } is f(e) with e
\* worked out once
Only(S) == CHOOSE x \in S : TRUE

Ok(p, v) == [pos |-> p, err |-> "", v |-> v]
Fail(p, e) == [pos |-> p, err |-> e, v |-> 0]

\* buf[pos]: past the end it is `undefined`, and `undefined & m` is 0
ByteAt(b, p) == IF p >= 0 /\ p < Len(b) THEN b[p + 1] ELSE 0

\* assertBounds(): throws when the cursor has moved past the buffer
assertBounds(b, p, v) == IF p > Len(b) THEN Fail(p, "premature EOF") ELSE Ok(p, v)

\* the bits the n-th byte of a 32-bit varint gives: 7 per byte, 4 from the
\* fifth, none from bytes 6..10
Bits32(byte, n) ==
    IF n <= 4 THEN (byte % 128) * Pow2(7 * (n - 1))
    ELSE IF n = 5 THEN (byte % 16) * Pow2(28)
    ELSE 0

\* varint32read: an eleventh continuation is an invalid varint.  The groups
\* do not overlap, so `|=` is a sum and `>>> 0` leaves it as it is.
RECURSIVE varint32From(_, _, _, _)
varint32From(b, p, n, acc) ==
    IF ByteAt(b, p) < 128 THEN assertBounds(b, p + 1, acc + Bits32(ByteAt(b, p), n))
    ELSE IF n = 10 THEN Fail(p + 1, "invalid varint")
    ELSE varint32From(b, p + 1, n + 1, acc + Bits32(ByteAt(b, p), n))

uint32(b, p) == varint32From(b, p, 1, 0)

\* zigzag decoding, (zze >>> 1) ^ -(zze & 1)
zigzag(z) == IF z % 2 = 0 THEN z \div 2 ELSE -((z + 1) \div 2)

Unzigzag(r) == IF r.err # "" THEN r ELSE Ok(r.pos, zigzag(r.v))

sint32(b, p) == Unzigzag(uint32(b, p))

\* the bits the n-th byte of a 64-bit varint gives
Bits64(byte, n) ==
    IF n <= 9 THEN (byte % 128) * Pow2(7 * (n - 1)) ELSE (byte % 2) * Pow2(63)

\* varint64read: the low 64 bits of up to ten 7-bit groups
RECURSIVE varint64From(_, _, _, _)
varint64From(b, p, n, acc) ==
    IF ByteAt(b, p) < 128 THEN assertBounds(b, p + 1, acc + Bits64(ByteAt(b, p), n))
    ELSE IF n = 10 THEN Fail(p + 1, "invalid varint")
    ELSE varint64From(b, p + 1, n + 1, acc + Bits64(ByteAt(b, p), n))

uint64(b, p) == varint64From(b, p, 1, 0)

\* the two's complement reading of a 64-bit pattern
Signed64(r) ==
    IF r.err # "" THEN r
    ELSE Ok(r.pos, IF r.v < Pow2(30) THEN r.v
                   ELSE IF r.v >= Pow2(63) THEN r.v - Pow2(64) ELSE r.v)

int64(b, p) == Signed64(uint64(b, p))

sint64(b, p) == Unzigzag(uint64(b, p))

\* tag(): [fieldNo, wireType], illegal when fieldNo <= 0 or wireType > 5
TagOf(r) ==
    IF r.err # "" THEN [pos |-> r.pos, err |-> r.err, fieldId |-> 0, wireType |-> 0]
    ELSE IF r.v \div 8 <= 0 \/ r.v % 8 > 5
    THEN [pos |-> r.pos, err |-> "illegal tag", fieldId |-> 0, wireType |-> 0]
    ELSE [pos |-> r.pos, err |-> "", fieldId |-> r.v \div 8, wireType |-> r.v % 8]

tag(b, p) == TagOf(uint32(b, p))

\* skip(wireType)
RECURSIVE skipVarint(_, _)
skipVarint(b, p) == IF ByteAt(b, p) >= 128 THEN skipVarint(b, p + 1) ELSE p + 1

SkipLength(r) == IF r.err # "" THEN r ELSE Ok(r.pos + r.v, 0)

RECURSIVE skip(_, _, _)
RECURSIVE SkipGroup(_, _)
RECURSIVE SkipGroupOn(_, _)

\* the StartGroup case: skip fields up to the EndGroup tag
SkipGroup(b, t) ==
    IF t.err # "" THEN Fail(t.pos, t.err)
    ELSE IF t.wireType = 4 THEN Ok(t.pos, 0)
    ELSE SkipGroupOn(b, skip(b, t.pos, t.wireType))

SkipGroupOn(b, s) == IF s.err # "" THEN s ELSE SkipGroup(b, tag(b, s.pos))

Bounded(b, r) == IF r.err # "" THEN r ELSE assertBounds(b, r.pos, 0)

skip(b, p, wireType) ==
    CASE wireType = 0 -> Bounded(b, Ok(skipVarint(b, p), 0))
      [] wireType = 1 -> Bounded(b, Ok(p + 8, 0))
      [] wireType = 5 -> Bounded(b, Ok(p + 4, 0))
      [] wireType = 2 -> Bounded(b, SkipLength(uint32(b, p)))
      [] wireType = 3 -> Bounded(b, SkipGroup(b, tag(b, p)))
      [] OTHER -> Fail(p, "cant skip wire type")

\* bytes(): a length prefix, then that many bytes
BytesOf(b, r) ==
    IF r.err # "" THEN r
    ELSE IF r.pos + r.v > Len(b) THEN Fail(r.pos + r.v, "premature EOF")
    ELSE Ok(r.pos + r.v, SubSeq(b, r.pos + 1, r.pos + r.v))

bytes(b, p) == BytesOf(b, uint32(b, p))

\* string(): bytes() through a fatal UTF-8 decoder.  ASCII decodes to one
\* code unit per byte; a byte >= 0x80 is taken as a decoding error (the
\* buffers drawn below hold no byte >= 0x80)
Utf8(r) ==
    IF r.err # "" THEN r
    ELSE IF \E i \in 1..Len(r.v) : r.v[i] >= 128 THEN Fail(r.pos, "invalid utf-8")
    ELSE r

string(b, p) == Utf8(bytes(b, p))

\* float() / double(): DataView.getFloat32 / getFloat64 after pos += 4 / 8;
\* the value is kept as its raw bytes
fixed(b, p, n) ==
    IF p + n > Len(b) THEN Fail(p + n, "RangeError")
    ELSE Ok(p + n, SubSeq(b, p + 1, p + n))

----------------------------------------------------------------------------
(* Property values: string | number | boolean | bigint | null, and the     *)
(* `undefined` an out-of-range table index gives.                          *)

Val(t, n, s) == [t |-> t, n |-> n, s |-> s]
Null == Val("null", 0, <<>>)
Undefined == Val("undefined", 0, <<>>)

\* convertLong with the default longType "number": PbLong.toNumber()
convertLong(r) ==
    IF r.err # "" THEN r
    ELSE IF r.v > MAX_SAFE_INTEGER \/ r.v < MIN_SAFE_INTEGER
    THEN Fail(r.pos, "cannot convert to safe number")
    ELSE Ok(r.pos, Val("number", r.v, <<>>))

AsValue(t, r) == IF r.err # "" THEN r ELSE Ok(r.pos, Val(t, 0, r.v))
AsBool(r) == IF r.err # "" THEN r ELSE Ok(r.pos, Val("boolean", IF r.v # 0 THEN 1 ELSE 0, <<>>))

\* one field of a value sub-message, lines 87-103
ValueField(b, t) ==
    CASE t.fieldId = 1 -> AsValue("string", string(b, t.pos))
      [] t.fieldId = 2 -> AsValue("float", fixed(b, t.pos, 4))
      [] t.fieldId = 3 -> AsValue("double", fixed(b, t.pos, 8))
      [] t.fieldId = 4 -> convertLong(int64(b, t.pos))
      [] t.fieldId = 5 -> convertLong(uint64(b, t.pos))
      [] t.fieldId = 6 -> convertLong(sint64(b, t.pos))
      [] t.fieldId = 7 -> AsBool(uint64(b, t.pos))
      [] OTHER -> Ok(t.pos, Null)

\* Layer.decodeValue: the loop of lines 85-104
RECURSIVE decodeValueLoop(_, _, _, _)
RECURSIVE DecodeValueTag(_, _, _)
RECURSIVE DecodeValueOn(_, _, _)

decodeValueLoop(b, p, end, value) ==
    IF ~(p < end) THEN Ok(p, value) ELSE DecodeValueTag(b, end, tag(b, p))

DecodeValueTag(b, end, t) ==
    IF t.err # "" THEN Fail(t.pos, t.err) ELSE DecodeValueOn(b, end, ValueField(b, t))

DecodeValueOn(b, end, r) ==
    IF r.err # "" THEN r ELSE decodeValueLoop(b, r.pos, end, r.v)

DecodeValueIn(b, r) ==
    IF r.err # "" THEN r ELSE decodeValueLoop(b, r.pos, r.pos + r.v, Null)

\* Layer.decodeValue, lines 81-106
decodeValue(b, p) == DecodeValueIn(b, uint32(b, p))

----------------------------------------------------------------------------
(* Layer *)

\* the field initialisers of lines 39-46
NewLayer(p) ==
    [pos |-> p, err |-> "", name |-> <<>>, version |-> 0, extent |-> 0,
     featureOffsets |-> <<>>, keys |-> <<>>, values |-> <<>>]

Thrown(X, r) == [X EXCEPT !.pos = r.pos, !.err = r.err]

SetVersion(L, r) == IF r.err # "" THEN Thrown(L, r) ELSE [L EXCEPT !.pos = r.pos, !.version = r.v]
SetName(L, r) == IF r.err # "" THEN Thrown(L, r) ELSE [L EXCEPT !.pos = r.pos, !.name = r.v]
SetExtent(L, r) == IF r.err # "" THEN Thrown(L, r) ELSE [L EXCEPT !.pos = r.pos, !.extent = r.v]
PushKey(L, r) == IF r.err # "" THEN Thrown(L, r) ELSE [L EXCEPT !.pos = r.pos, !.keys = Append(@, r.v)]
PushValue(L, r) == IF r.err # "" THEN Thrown(L, r) ELSE [L EXCEPT !.pos = r.pos, !.values = Append(@, r.v)]
PushFeatureOffset(L, p, r) ==
    IF r.err # "" THEN Thrown([L EXCEPT !.featureOffsets = Append(@, p)], r)
    ELSE [L EXCEPT !.pos = r.pos, !.featureOffsets = Append(@, p)]

\* one field of a layer sub-message, lines 52-65: a field that is none of
\* the six is left where its tag ended
LayerField(b, L, t) ==
    CASE t.fieldId = 15 -> SetVersion(L, uint32(b, t.pos))
      [] t.fieldId = 1 -> SetName(L, string(b, t.pos))
      [] t.fieldId = 5 -> SetExtent(L, uint32(b, t.pos))
      [] t.fieldId = 2 -> PushFeatureOffset(L, t.pos, skip(b, t.pos, t.wireType))
      [] t.fieldId = 3 -> PushKey(L, string(b, t.pos))
      [] t.fieldId = 4 -> PushValue(L, decodeValue(b, t.pos))
      [] OTHER -> [L EXCEPT !.pos = t.pos]

\* Layer.constructor: the loop of lines 50-66
RECURSIVE LayerLoop(_, _, _)
RECURSIVE LayerTag(_, _, _, _)

LayerLoop(b, end, L) ==
    IF L.err # "" \/ ~(L.pos < end) THEN L ELSE LayerTag(b, end, L, tag(b, L.pos))

LayerTag(b, end, L, t) ==
    IF t.err # "" THEN Thrown(L, t)
    ELSE Only({ LayerLoop(b, end, M) : M \in { LayerField(b, L, t) } })

\* new Layer(reader, end, longType); length is line 68
Layer(b, p, end) == LayerLoop(b, end, NewLayer(p))

LayerLength(L) == Len(L.featureOffsets)

----------------------------------------------------------------------------
(* VectorTile *)

\* `layers` is a JS object keyed by name: an assignment replaces the entry
Put(layers, L) ==
    [n \in (DOMAIN layers) \cup {L.name} |-> IF n = L.name THEN L ELSE layers[n]]

NoLayers == [n \in {} |-> 0]

\* a constructor that enters every layer, empty or not
KeepAll(layers, layer) == Put(layers, layer)

\* lines 30-32: only a layer with features is entered
Keep(layers, layer) == IF LayerLength(layer) # 0 THEN Put(layers, layer) ELSE layers

\* VectorTile.constructor: the loop of lines 27-33.  T is [pos, err, layers,
\* scanned]; scanned lists every Layer built, kept or not
RECURSIVE VectorTileLoop(_, _)
RECURSIVE VectorTileTag(_, _, _)
RECURSIVE VectorTileLength(_, _, _)
RECURSIVE VectorTileLayer(_, _, _)

VectorTileLoop(b, T) ==
    IF ~(T.pos < Len(b)) THEN T ELSE VectorTileTag(b, T, uint32(b, T.pos))

VectorTileTag(b, T, t) ==
    IF t.err # "" THEN Thrown(T, t) ELSE VectorTileLength(b, T, uint32(b, t.pos))

VectorTileLength(b, T, n) ==
    IF n.err # "" THEN Thrown(T, n) ELSE VectorTileLayer(b, T, Layer(b, n.pos, n.v + n.pos))

VectorTileLayer(b, T, layer) ==
    IF layer.err # "" THEN Thrown(T, layer)
    ELSE VectorTileLoop(b, [T EXCEPT !.pos = layer.pos,
                                     !.scanned = Append(@, layer),
                                     !.layers = Keep(@, layer)])

\* new VectorTile(bytes), lines 24-34
VectorTile(b) ==
    VectorTileLoop(b, [pos |-> 0, err |-> "", layers |-> NoLayers, scanned |-> <<>>])

----------------------------------------------------------------------------
(* Feature *)

FeatureType_UNKNOWN == 0
FeatureType_POINT == 1
FeatureType_LINESTRING == 2
FeatureType_POLYGON == 3

Command_MoveTo == 1
Command_LineTo == 2
Command_ClosePath == 7

\* keys[i] / values[i]: `undefined` outside the table; as a property name
\* `undefined` is the string "undefined"
UndefinedKey == <<117, 110, 100, 101, 102, 105, 110, 101, 100>>

KeyAt(keys, i) == IF i < Len(keys) THEN keys[i + 1] ELSE UndefinedKey
ValueAt(values, i) == IF i < Len(values) THEN values[i + 1] ELSE Undefined

\* properties[key] = value
SetProp(props, key, value) ==
    [k \in (DOMAIN props) \cup {key} |-> IF k = key THEN value ELSE props[k]]

NoProps == [k \in {} |-> Undefined]

\* the packed tags of field 2: the loop of lines 154-158
RECURSIVE TagsLoop(_, _, _, _, _, _)
RECURSIVE TagsKey(_, _, _, _, _, _)
RECURSIVE TagsValue(_, _, _, _, _, _, _)

TagsLoop(b, p, end, keys, values, props) ==
    IF ~(p < end) THEN Ok(p, props)
    ELSE TagsKey(b, end, keys, values, props, uint32(b, p))

TagsKey(b, end, keys, values, props, k) ==
    IF k.err # "" THEN Fail(k.pos, k.err)
    ELSE TagsValue(b, end, keys, values, props, k.v, uint32(b, k.pos))

TagsValue(b, end, keys, values, props, k, v) ==
    IF v.err # "" THEN Fail(v.pos, v.err)
    ELSE TagsLoop(b, v.pos, end, keys, values,
                  SetProp(props, KeyAt(keys, k), ValueAt(values, v.v)))

TagsIn(b, keys, values, props, n) ==
    IF n.err # "" THEN n ELSE TagsLoop(b, n.pos, n.v + n.pos, keys, values, props)

\* the field initialisers of lines 135-139 and the extent parameter
NewFeature(p, extent) ==
    [pos |-> p, err |-> "", hasId |-> FALSE, id |-> 0,
     type |-> FeatureType_UNKNOWN, properties |-> NoProps,
     geometryOffset |-> 0, extent |-> extent]

\* the id is the decimal string of the int64, kept as the number it spells
SetId(F, r) == IF r.err # "" THEN Thrown(F, r) ELSE [F EXCEPT !.pos = r.pos, !.hasId = TRUE, !.id = r.v]
SetProperties(F, r) == IF r.err # "" THEN Thrown(F, r) ELSE [F EXCEPT !.pos = r.pos, !.properties = r.v]
SetType(F, r) == IF r.err # "" THEN Thrown(F, r) ELSE [F EXCEPT !.pos = r.pos, !.type = r.v]
SetGeometryOffset(F, p, r) ==
    IF r.err # "" THEN Thrown([F EXCEPT !.geometryOffset = p], r)
    ELSE [F EXCEPT !.pos = r.pos, !.geometryOffset = p]

\* one field of a feature sub-message, lines 150-164: a field that is none
\* of the four is left where its tag ended
FeatureField(b, keys, values, F, t) ==
    CASE t.fieldId = 1 -> SetId(F, int64(b, t.pos))
      [] t.fieldId = 2 ->
           SetProperties(F, TagsIn(b, keys, values, F.properties, uint32(b, t.pos)))
      [] t.fieldId = 3 -> SetType(F, uint32(b, t.pos))
      [] t.fieldId = 4 -> SetGeometryOffset(F, t.pos, skip(b, t.pos, t.wireType))
      [] OTHER -> [F EXCEPT !.pos = t.pos]

\* Feature.constructor: the loop of lines 148-165
RECURSIVE FeatureLoop(_, _, _, _, _)
RECURSIVE FeatureTag(_, _, _, _, _, _)

FeatureLoop(b, end, keys, values, F) ==
    IF F.err # "" \/ ~(F.pos < end) THEN F
    ELSE FeatureTag(b, end, keys, values, F, tag(b, F.pos))

FeatureTag(b, end, keys, values, F, t) ==
    IF t.err # "" THEN Thrown(F, t)
    ELSE FeatureLoop(b, end, keys, values, FeatureField(b, keys, values, F, t))

Feature(b, p, end, keys, values, extent) ==
    FeatureLoop(b, end, keys, values, NewFeature(p, extent))

\* Layer.feature(index), lines 72-79; p is where the cursor stands at the call
OutOfBounds == "out of bounds"

InRange(L, index) == ~(index < 0 \/ index >= Len(L.featureOffsets))

FeatureIn(b, L, n) ==
    IF n.err # "" THEN Thrown(NewFeature(n.pos, L.extent), n)
    ELSE Feature(b, n.pos, n.v + n.pos, L.keys, L.values, L.extent)

\* lines 76-78: seek to the recorded offset, read the length, build the Feature
FeatureAt(b, L, i) == FeatureIn(b, L, uint32(b, L.featureOffsets[i + 1]))

\* a feature() that clamps the index into the layer instead of refusing it
featureClamped(b, p, L, index) ==
    IF Len(L.featureOffsets) = 0 THEN [NewFeature(p, 0) EXCEPT !.err = OutOfBounds]
    ELSE FeatureAt(b, L, Max(0, Min(index, Len(L.featureOffsets) - 1)))

feature(b, p, L, index) ==
    IF ~InRange(L, index) THEN [NewFeature(p, 0) EXCEPT !.err = OutOfBounds]
    ELSE FeatureAt(b, L, index)

----------------------------------------------------------------------------
(* Geometry *)

Point(x, y) == [x |-> x, y |-> y]

\* a decoder that reads on from wherever the shared cursor stands
NoReseek(p, F) == p

\* lines 170 and 217: this.reader.pos = this.geometryOffset
Reseek(p, F) == F.geometryOffset

\* a MoveTo that drops the open line instead of pushing it
PushPointDroppingLine(G) ==
    IF G.command = Command_MoveTo
    THEN [G EXCEPT !.open = TRUE, !.line = <<Point(G.x, G.y)>>]
    ELSE IF G.open THEN [G EXCEPT !.line = Append(@, Point(G.x, G.y))]
    ELSE G

\* lines 193-200: MoveTo pushes the open line and opens a new one, then the
\* point goes to the open line, if there is one
PushPoint(G) ==
    IF G.command = Command_MoveTo
    THEN [G EXCEPT !.lines = IF G.open THEN Append(@, G.line) ELSE @,
                   !.open = TRUE,
                   !.line = <<Point(G.x, G.y)>>]
    ELSE IF G.open THEN [G EXCEPT !.line = Append(@, Point(G.x, G.y))]
    ELSE G

\* lines 202-204
ClosePath(G) ==
    IF G.open THEN [G EXCEPT !.line = Append(@, Point(@[1].x, @[1].y))] ELSE G

\* Feature.loadGeometry: the loop of lines 180-206.  G is [pos, err,
\* command, length, x, y, lines, open, line]; `open` is `line != null`
RECURSIVE loadGeometryLoop(_, _, _)
RECURSIVE GeometryCommand(_, _, _, _)
RECURSIVE GeometryStep(_, _, _)
RECURSIVE GeometryDx(_, _, _, _)
RECURSIVE GeometryDy(_, _, _, _)

loadGeometryLoop(b, end, G) ==
    IF ~(G.pos < end) THEN G
    ELSE IF G.length <= 0 THEN GeometryCommand(b, end, G, uint32(b, G.pos))
    ELSE GeometryStep(b, end, [G EXCEPT !.length = @ - 1])

GeometryCommand(b, end, G, c) ==
    IF c.err # "" THEN Thrown(G, c)
    ELSE GeometryStep(b, end, [G EXCEPT !.pos = c.pos, !.command = c.v % 8,
                                        !.length = (c.v \div 8) - 1])

GeometryStep(b, end, G) ==
    IF G.command = Command_MoveTo \/ G.command = Command_LineTo
    THEN GeometryDx(b, end, G, sint32(b, G.pos))
    ELSE IF G.command = Command_ClosePath THEN loadGeometryLoop(b, end, ClosePath(G))
    ELSE loadGeometryLoop(b, end, G)

GeometryDx(b, end, G, dx) ==
    IF dx.err # "" THEN Thrown(G, dx)
    ELSE GeometryDy(b, end, [G EXCEPT !.pos = dx.pos, !.x = @ + dx.v], sint32(b, dx.pos))

GeometryDy(b, end, G, dy) ==
    IF dy.err # "" THEN Thrown(G, dy)
    ELSE loadGeometryLoop(b, end, PushPoint([G EXCEPT !.pos = dy.pos, !.y = @ + dy.v]))

\* lines 208-212
Lines(G) ==
    IF G.err # "" THEN Fail(G.pos, G.err)
    ELSE Ok(G.pos, IF G.open THEN Append(G.lines, G.line) ELSE G.lines)

LoadGeometryIn(b, n) ==
    IF n.err # "" THEN n
    ELSE Lines(loadGeometryLoop(b, n.v + n.pos,
                 [pos |-> n.pos, err |-> "", command |-> 1, length |-> 0,
                  x |-> 0, y |-> 0, lines |-> <<>>, open |-> FALSE, line |-> <<>>]))

\* Feature.loadGeometry, lines 169-213; p is where the cursor stands
loadGeometry(b, p, F) == LoadGeometryIn(b, uint32(b, Reseek(p, F)))

\* a box that follows x only
ExtendX(G) == [G EXCEPT !.xMax = Max(G.x, @), !.xMin = Min(G.x, @)]

\* lines 241-244
Extend(G) ==
    [G EXCEPT !.xMax = Max(G.x, @), !.xMin = Min(G.x, @),
              !.yMax = Max(G.y, @), !.yMin = Min(G.y, @)]

\* Feature.bbox: the loop of lines 229-246
RECURSIVE bboxLoop(_, _, _)
RECURSIVE BboxCommand(_, _, _, _)
RECURSIVE BboxStep(_, _, _)
RECURSIVE BboxDx(_, _, _, _)
RECURSIVE BboxDy(_, _, _, _)

bboxLoop(b, end, G) ==
    IF ~(G.pos < end) THEN G
    ELSE IF G.count <= 0 THEN BboxCommand(b, end, G, uint32(b, G.pos))
    ELSE BboxStep(b, end, [G EXCEPT !.count = @ - 1])

BboxCommand(b, end, G, c) ==
    IF c.err # "" THEN Thrown(G, c)
    ELSE BboxStep(b, end, [G EXCEPT !.pos = c.pos, !.command = c.v % 8,
                                    !.count = (c.v \div 8) - 1])

BboxStep(b, end, G) ==
    IF G.command = Command_MoveTo \/ G.command = Command_LineTo
    THEN BboxDx(b, end, G, sint32(b, G.pos))
    ELSE bboxLoop(b, end, G)

BboxDx(b, end, G, dx) ==
    IF dx.err # "" THEN Thrown(G, dx)
    ELSE BboxDy(b, end, [G EXCEPT !.pos = dx.pos, !.x = @ + dx.v], sint32(b, dx.pos))

BboxDy(b, end, G, dy) ==
    IF dy.err # "" THEN Thrown(G, dy)
    ELSE bboxLoop(b, end, Extend([G EXCEPT !.pos = dy.pos, !.y = @ + dy.v]))

\* line 248
Box(G) ==
    IF G.err # "" THEN Fail(G.pos, G.err)
    ELSE Ok(G.pos, <<G.xMin, G.yMin, G.xMax, G.yMax>>)

BboxIn(b, n) ==
    IF n.err # "" THEN n
    ELSE Box(bboxLoop(b, n.v + n.pos,
               [pos |-> n.pos, err |-> "", command |-> 0, count |-> 0,
                x |-> 0, y |-> 0,
                xMin |-> MAX_SAFE_INTEGER, xMax |-> MIN_SAFE_INTEGER,
                yMin |-> MAX_SAFE_INTEGER, yMax |-> MIN_SAFE_INTEGER]))

\* Feature.bbox, lines 216-249
bbox(b, p, F) == BboxIn(b, uint32(b, Reseek(p, F)))

----------------------------------------------------------------------------
(* Ring classification *)

\* signedArea, lines 368-376: j runs one behind i, starting at the last point
RECURSIVE signedAreaFrom(_, _, _)
signedAreaFrom(ring, i, j) ==
    IF i > Len(ring) THEN 0
    ELSE (ring[j].x - ring[i].x) * (ring[i].y + ring[j].y)
         + signedAreaFrom(ring, i + 1, i)

signedArea(ring) == signedAreaFrom(ring, 1, Len(ring))

\* lines 350-357: C is [polygons, open, polygon], `open` is `polygon != null`
StartPolygon(C, ring) ==
    [polygons |-> IF C.open THEN Append(C.polygons, C.polygon) ELSE C.polygons,
     open |-> TRUE,
     polygon |-> <<ring>>]

\* a hole that, with no polygon in progress, starts one
AddHoleOrStart(C, ring) ==
    IF C.open THEN [C EXCEPT !.polygon = Append(@, ring)] ELSE StartPolygon(C, ring)

AddHole(C, ring) == IF C.open THEN [C EXCEPT !.polygon = Append(@, ring)] ELSE C

\* a classification whose test is `area > 0` alone: zero counts as a hole
ClassifyRingKeepingZero(C, ring, area) ==
    IF area > 0 THEN StartPolygon(C, ring) ELSE AddHole(C, ring)

ClassifyRing(C, ring, area) ==
    IF area = 0 THEN C
    ELSE IF area > 0 THEN StartPolygon(C, ring)
    ELSE AddHole(C, ring)

\* the loop of lines 344-358
RECURSIVE classifyLoop(_, _, _)
classifyLoop(rings, i, C) ==
    IF i > Len(rings) THEN C
    ELSE classifyLoop(rings, i + 1, ClassifyRing(C, rings[i], signedArea(rings[i])))

\* lines 360-364
Polygons(C) == IF C.open THEN Append(C.polygons, C.polygon) ELSE C.polygons

\* classifyRings, lines 334-365
classifyRings(rings) ==
    IF Len(rings) <= 1 THEN <<rings>>
    ELSE Polygons(classifyLoop(rings, 1,
                    [polygons |-> <<>>, open |-> FALSE, polygon |-> <<>>]))

----------------------------------------------------------------------------
(* Typed accessors: the value is [null, v] *)

NonNull(v) == [null |-> FALSE, v |-> v]
IsNull == [null |-> TRUE, v |-> <<>>]

FirstPoints(lines) == [i \in 1..Len(lines) |-> lines[i][1]]

PointsOf(F, g) ==
    IF g.err # "" THEN g
    ELSE Ok(g.pos, IF F.type = FeatureType_POINT THEN NonNull(FirstPoints(g.v)) ELSE IsNull)

\* asPoints, lines 312-315: the geometry is decoded before the type is looked at
asPoints(b, p, F) == PointsOf(F, loadGeometry(b, p, F))

LinesOf(g) == IF g.err # "" THEN g ELSE Ok(g.pos, NonNull(g.v))

\* an asLines that leaves out the comparison with the type
asLinesOfAnyType(b, p, F) == LinesOf(loadGeometry(b, p, F))

\* asLines, lines 318-320
asLines(b, p, F) ==
    IF F.type = FeatureType_LINESTRING THEN LinesOf(loadGeometry(b, p, F))
    ELSE Ok(p, IsNull)

PolygonsOf(g) == IF g.err # "" THEN g ELSE Ok(g.pos, NonNull(classifyRings(g.v)))

\* asPolygons, lines 327-329
asPolygons(b, p, F) ==
    IF F.type = FeatureType_POLYGON THEN PolygonsOf(loadGeometry(b, p, F))
    ELSE Ok(p, IsNull)

----------------------------------------------------------------------------
(* GeoJSON *)

\* the arrow function of lines 260-265.  A longitude is the exact quotient
\* <<numerator, denominator>> of ((x + x0) * 360) / size - 180; a latitude
\* is the quotient y2 = 180 - ((y + y0) * 360) / size that line 263 feeds to
\* the (strictly increasing) map (360 / PI) * atan(exp(y2 * PI / 180)) - 90.
\* A denominator 0 is the division by zero of a zero extent.
Coordinate(point, x0, y0, size) ==
    [lon |-> <<(point.x + x0) * 360 - 180 * size, size>>,
     lat |-> <<180 * size - (point.y + y0) * 360, size>>]

project(points, x0, y0, size) ==
    [i \in 1..Len(points) |-> Coordinate(points[i], x0, y0, size)]

ProjectPoints(r, x0, y0, size) ==
    IF r.err # "" THEN r ELSE Ok(r.pos, project(r.v.v, x0, y0, size))

ProjectLines(r, x0, y0, size) ==
    IF r.err # "" THEN r
    ELSE Ok(r.pos, [i \in 1..Len(r.v.v) |-> project(r.v.v[i], x0, y0, size)])

ProjectPolygons(r, x0, y0, size) ==
    IF r.err # "" THEN r
    ELSE Ok(r.pos, [i \in 1..Len(r.v.v) |->
                      [j \in 1..Len(r.v.v[i]) |-> project(r.v.v[i][j], x0, y0, size)]])

\* the switch of lines 267-287: [pos, err, v], v the projected coordinates;
\* with no case taken `coordinates` stays undefined and line 289 throws
GeoCoordinates(b, p, F, x0, y0, size) ==
    CASE F.type = FeatureType_POINT -> ProjectPoints(asPoints(b, p, F), x0, y0, size)
      [] F.type = FeatureType_LINESTRING -> ProjectLines(asLines(b, p, F), x0, y0, size)
      [] F.type = 3 -> ProjectPolygons(asPolygons(b, p, F), x0, y0, size)
      [] OTHER -> Fail(p, "TypeError")

GeoType(F) ==
    CASE F.type = FeatureType_POINT -> "Point"
      [] F.type = FeatureType_LINESTRING -> "LineString"
      [] F.type = 3 -> "Polygon"
      [] OTHER -> ""

\* an unwrapping that tests `length >= 1`
GeoGeometryOfFirst(type, coordinates) ==
    IF Len(coordinates) >= 1
    THEN [type |-> type, coordinates |-> coordinates[1]]
    ELSE [type |-> "Multi" \o type, coordinates |-> coordinates]

\* lines 289-293: one element is unwrapped, anything else is a Multi
GeoGeometry(type, coordinates) ==
    IF Len(coordinates) = 1
    THEN [type |-> type, coordinates |-> coordinates[1]]
    ELSE [type |-> "Multi" \o type, coordinates |-> coordinates]

\* lines 295-308
GeoFeature(F, c) ==
    IF c.err # "" THEN c
    ELSE Ok(c.pos, [type |-> "Feature",
                    geometry |-> GeoGeometry(GeoType(F), c.v),
                    properties |-> F.properties,
                    hasId |-> F.hasId,
                    id |-> F.id])

\* Feature.toGeoJSON(x, y, zoom), lines 253-309
toGeoJSON(b, p, F, x, y, zoom) ==
    GeoFeature(F, GeoCoordinates(b, p, F, F.extent * x, F.extent * y,
                                 F.extent * Pow2(zoom)))

----------------------------------------------------------------------------
(* Input buffers.  They are written in the wire layout the constructors    *)
(* read: a tag byte (field * 8 + wire type), for a sub-message a length    *)
(* byte, then the payload.  Every byte is below 0x80, so each varint is    *)
(* one byte.                                                               *)

MaxLayers == 2      \* layer sub-messages in a tile of the layer family
MaxCut == 3         \* bytes cut off the end of a truncated tile
MaxIndex == 2       \* the largest small index handed to Layer.feature
MaxZoom == 1        \* the largest zoom handed to toGeoJSON
BigIndex == 1000000000

Sub(fieldId, payload) == <<fieldId * 8 + 2, Len(payload)>> \o payload
Varint(fieldId, v) == <<fieldId * 8, v>>

RECURSIVE Flatten(_)
Flatten(ss) == IF ss = <<>> THEN <<>> ELSE Head(ss) \o Flatten(Tail(ss))

zz(n) == IF n >= 0 THEN 2 * n ELSE -2 * n - 1
Cmd(id, count) == id + 8 * count

\* geometry command streams
MoveTo1(dx, dy) == <<Cmd(1, 1), zz(dx), zz(dy)>>
LineTo2(dx1, dy1, dx2, dy2) == <<Cmd(2, 2), zz(dx1), zz(dy1), zz(dx2), zz(dy2)>>
Close == <<Cmd(7, 1)>>
RingA == MoveTo1(1, 1) \o LineTo2(2, 0, 0, 2) \o Close      \* one winding
RingB == MoveTo1(1, 1) \o LineTo2(0, 2, 2, 0) \o Close      \* the other
RingZ == MoveTo1(1, 1) \o LineTo2(1, 1, 1, 1) \o Close      \* no area

NoField == <<>>

\* a feature sub-message body from its four fields (each may be left out)
FeatureBody(id, tags, type, geometry) == id \o tags \o type \o geometry

Id(n) == Varint(1, n)
Tags(pairs) == Sub(2, pairs)
Type(t) == Varint(3, t)
Geom(commands) == Sub(4, commands)

PointFeature == FeatureBody(Id(5), Tags(<<0, 0>>), Type(1), Geom(MoveTo1(3, 2)))
LineFeature == FeatureBody(NoField, NoField, Type(2), Geom(MoveTo1(1, 1) \o LineTo2(2, 0, 0, 2)))

FeatureBodies ==
    { PointFeature,
      LineFeature,
      \* POINT: two points, no point
      FeatureBody(NoField, NoField, Type(1), Geom(<<Cmd(1, 2), 2, 4, 6, 2>>)),
      FeatureBody(NoField, NoField, Type(1), Geom(<<>>)),
      \* LINESTRING: two lines; LineTo before any MoveTo
      FeatureBody(NoField, NoField, Type(2),
                  Geom(MoveTo1(1, 1) \o LineTo2(2, 0, 0, 2) \o MoveTo1(1, 1) \o LineTo2(1, 0, 0, 1))),
      FeatureBody(NoField, NoField, Type(2), Geom(LineTo2(1, 2, 2, 1))),
      \* POLYGON: one ring of each kind, then pairs of rings
      FeatureBody(NoField, NoField, Type(3), Geom(RingA)),
      FeatureBody(NoField, NoField, Type(3), Geom(RingB)),
      FeatureBody(NoField, NoField, Type(3), Geom(RingZ)),
      FeatureBody(NoField, NoField, Type(3), Geom(RingA \o RingB)),
      FeatureBody(NoField, NoField, Type(3), Geom(RingB \o RingA)),
      FeatureBody(NoField, NoField, Type(3), Geom(RingA \o RingA)),
      FeatureBody(NoField, NoField, Type(3), Geom(RingZ \o RingZ)),
      \* no type field, type 0, a type the enumeration does not name
      FeatureBody(Id(1), NoField, NoField, Geom(MoveTo1(3, 2))),
      FeatureBody(NoField, NoField, Type(0), Geom(MoveTo1(3, 2))),
      FeatureBody(NoField, NoField, Type(5), Geom(MoveTo1(3, 2))),
      \* tags: key index past the key table, value index past the value table
      FeatureBody(NoField, Tags(<<1, 0>>), Type(1), Geom(MoveTo1(3, 2))),
      FeatureBody(NoField, Tags(<<0, 1>>), Type(1), Geom(MoveTo1(3, 2))),
      FeatureBody(NoField, Tags(<<0, 0, 0, 1>>), Type(1), Geom(MoveTo1(3, 2))),
      \* no geometry field; a geometry whose declared length cuts a MoveTo short
      FeatureBody(NoField, NoField, Type(1), NoField),
      FeatureBody(NoField, NoField, Type(2), Geom(<<Cmd(1, 1), 6>>)),
      \* a field the decoder does not know (6, a varint of value 24) at the end
      FeatureBody(NoField, NoField, Type(1), Geom(MoveTo1(3, 2))) \o Varint(6, 24),
      \* a feature that is no message at all: field number 0
      <<0>> }

\* what may follow the feature under test in its layer
Followers == { <<>>, <<PointFeature>> }

\* a layer sub-message body: version, name, extent, features, one key, one value
LayerBody(version, name, extent, features) ==
    version \o name \o extent
    \o Flatten([i \in 1..Len(features) |-> Sub(2, features[i])])
    \o Sub(3, <<107>>)
    \o Sub(4, Sub(1, <<118>>))

Version(v) == Varint(15, v)
Name(n) == Sub(1, n)
Extent(e) == Varint(5, e)

TileOf(layers) == Flatten([i \in 1..Len(layers) |-> Sub(3, layers[i])])

\* the feature family: one full layer "a" holding a feature under test
FeatureTiles ==
    { TileOf(<<LayerBody(Version(2), Name(<<97>>), Extent(64), <<f>> \o g)>>) :
        f \in FeatureBodies, g \in Followers }

\* the layer family: up to MaxLayers layers.  A full layer named "a" with and
\* without a feature, a full layer without a name, and a layer "a" without
\* the version and extent fields
LayerBodies ==
    { LayerBody(Version(2), Name(<<97>>), Extent(64), fs) : fs \in { <<>>, <<PointFeature>> } }
    \cup { LayerBody(Version(2), NoField, Extent(64), <<PointFeature>>) }
    \cup { LayerBody(NoField, Name(<<97>>), NoField, <<LineFeature>>) }

RECURSIVE LayerLists(_)
LayerLists(n) ==
    IF n = 0 THEN { <<>> }
    ELSE LayerLists(n - 1)
         \cup { Append(ls, l) : ls \in { x \in LayerLists(n - 1) : Len(x) = n - 1 },
                                l \in LayerBodies }

LayerTiles == { TileOf(ls) : ls \in LayerLists(MaxLayers) }

\* the truncated family: a tile of the layer family with its last bytes gone
TruncatedTiles ==
    { SubSeq(t, 1, Len(t) - k) : t \in { x \in LayerTiles : Len(x) > MaxCut }, k \in 1..MaxCut }

\* a layer that ends with a field the decoder does not know: field 6, a
\* varint whose value is the tag byte of a version field
UnknownFieldTiles ==
    { TileOf(<<LayerBody(Version(2), Name(<<97>>), Extent(64), <<PointFeature>>)
               \o Varint(6, 15 * 8)>>) }

Tiles == FeatureTiles \cup LayerTiles \cup TruncatedTiles \cup UnknownFieldTiles

----------------------------------------------------------------------------
(* The caller: it builds the tile, then calls the query API in any order,  *)
(* keeping the features it obtained in two variables.                      *)

Handles == { "f", "g" }   \* f is the feature obtained last, g the one before

NoFeature == [F |-> [NewFeature(0, 0) EXCEPT !.err = "none"], layer |-> <<>>, index |-> 0]
NoTile == [made |-> FALSE, layers |-> NoLayers]
NoLoop == [name |-> "", end |-> 0, done |-> TRUE, err |-> "", command |-> 0, length |-> 0]

Indices == (-1..MaxIndex) \cup { BigIndex }
Zooms == { 0, MaxZoom }   \* the lowest and the highest zoom level tried
Columns(zoom) == { 0, Pow2(zoom) - 1 }   \* the first and the last tile of a zoom level

\* what the caller has after a call: the call (args are toGeoJSON's x, y and
\* zoom), and what it returned or threw
Outcome(op, h, layer, index, r) ==
    [op |-> op, h |-> h, layer |-> layer, index |-> index, args |-> <<>>,
     err |-> r.err, v |-> r.v]

Init ==
    /\ buf \in Tiles
    /\ pos = 0
    /\ tile = NoTile
    /\ scanned = <<>>
    /\ held = [h \in Handles |-> NoFeature]
    /\ ringList = <<>>
    /\ last = Outcome("none", "", <<>>, 0, Ok(0, 0))
    /\ loop = NoLoop

\* const tile = new VectorTile(bytes): a throw leaves the caller without a tile
NewVectorTile ==
    /\ last.op = "none"
    /\ LET T == VectorTile(buf)
       IN  /\ pos' = T.pos
           /\ scanned' = T.scanned
           /\ tile' = IF T.err = "" THEN [made |-> TRUE, layers |-> T.layers] ELSE NoTile
           /\ last' = Outcome("VectorTile", "", <<>>, 0, [err |-> T.err, v |-> 0])
    /\ UNCHANGED <<buf, held, ringList, loop>>

\* g = f; f = tile.layers[name].feature(index)
CallFeature(name, index) ==
    /\ tile.made
    /\ name \in DOMAIN tile.layers
    /\ LET F == feature(buf, pos, tile.layers[name], index)
       IN  /\ pos' = F.pos
           /\ held' = IF F.err = ""
                      THEN [f |-> [F |-> F, layer |-> name, index |-> index], g |-> held.f]
                      ELSE held
           /\ last' = Outcome("feature", "f", name, index, [err |-> F.err, v |-> 0])
    /\ UNCHANGED <<buf, tile, scanned, ringList, loop>>

Held(h) == held[h].F.err = ""

Call(op, h, r) ==
    /\ pos' = r.pos
    /\ last' = Outcome(op, h, held[h].layer, held[h].index, r)
    /\ UNCHANGED <<buf, tile, scanned, held, ringList, loop>>

CallLoadGeometry(h) == Held(h) /\ Call("loadGeometry", h, loadGeometry(buf, pos, held[h].F))
CallBbox(h) == Held(h) /\ Call("bbox", h, bbox(buf, pos, held[h].F))
CallAsPoints(h) == Held(h) /\ Call("asPoints", h, asPoints(buf, pos, held[h].F))
CallAsLines(h) == Held(h) /\ Call("asLines", h, asLines(buf, pos, held[h].F))
CallAsPolygons(h) == Held(h) /\ Call("asPolygons", h, asPolygons(buf, pos, held[h].F))
CallToGeoJSON(h, x, y, zoom) ==
    /\ Held(h)
    /\ LET r == toGeoJSON(buf, pos, held[h].F, x, y, zoom)
       IN  /\ pos' = r.pos
           /\ last' = [Outcome("toGeoJSON", h, held[h].layer, held[h].index, r)
                         EXCEPT !.args = <<x, y, zoom>>]
    /\ UNCHANGED <<buf, tile, scanned, held, ringList, loop>>

Next ==
    \/ NewVectorTile
    \/ \E name \in DOMAIN tile.layers, index \in Indices : CallFeature(name, index)
    \/ \E h \in Handles : CallLoadGeometry(h)
    \/ \E h \in Handles : CallBbox(h)
    \/ \E h \in Handles : CallAsPoints(h)
    \/ \E h \in Handles : CallAsLines(h)
    \/ \E h \in Handles : CallAsPolygons(h)
    \/ \E h \in Handles, zoom \in Zooms : \E x \in Columns(zoom) : CallToGeoJSON(h, x, x, zoom)

Spec == Init /\ [][Next]_vars

----------------------------------------------------------------------------
(* classifyRings on its own: any list of up to MaxRings rings              *)

MaxRings == 3

Triangle(x, y, dx, dy) ==
    <<Point(x, y), Point(x + dx, y), Point(x + dx, y + dy), Point(x, y)>>

\* two rings of each winding, a ring on one line, a ring of one point
RingSet ==
    { Triangle(1, 1, 2, 2), Triangle(0, 0, 3, 1),
      Triangle(1, 1, 2, -2), Triangle(0, 0, -1, 3),
      <<Point(1, 1), Point(2, 2), Point(3, 3), Point(1, 1)>>,
      <<Point(4, 5)>> }

RECURSIVE RingLists(_)
RingLists(n) ==
    IF n = 0 THEN { <<>> }
    ELSE RingLists(n - 1)
         \cup { Append(rs, r) : rs \in { x \in RingLists(n - 1) : Len(x) = n - 1 },
                                r \in RingSet }

InitRings ==
    /\ buf = <<>>
    /\ pos = 0
    /\ tile = NoTile
    /\ scanned = <<>>
    /\ held = [h \in Handles |-> NoFeature]
    /\ ringList \in RingLists(MaxRings)
    /\ last = Outcome("none", "", <<>>, 0, Ok(0, 0))
    /\ loop = NoLoop

\* polygons = classifyRings(ringList)
CallClassifyRings ==
    /\ last.op = "none"
    /\ last' = Outcome("classifyRings", "", <<>>, 0, Ok(0, classifyRings(ringList)))
    /\ UNCHANGED <<buf, pos, tile, scanned, held, ringList, loop>>

NextRings == CallClassifyRings

SpecRings == InitRings /\ [][NextRings]_vars

----------------------------------------------------------------------------
(* The decoding loops, one pass of a loop body at a time.  `loop` is the   *)
(* frame of the running loop: its name, its end offset, the pending        *)
(* command and repeat count of a geometry loop, whether it has been left   *)
(* and the error that left it.  A pass is [pos, err, command, length].     *)

MaxBytes == 3       \* the length of the longest buffer a loop is run on

\* the bytes of the buffers: a zero; the tag of field 2 with wire type 2
\* and the command LineTo x 2; the tag that starts a group and the unknown
\* command 3 x 3; an illegal tag and the command ClosePath x 3
LoopBytes == { 0, 18, 27, 31 }

\* a varint byte with the continuation bit, for a buffer cut inside a varint
Continued == 128

RECURSIVE LoopBuffers(_)
LoopBuffers(n) ==
    IF n = 0 THEN { <<>> }
    ELSE LoopBuffers(n - 1)
         \cup { Append(bs, x) : bs \in { y \in LoopBuffers(n - 1) : Len(y) = n - 1 },
                                x \in LoopBytes }

LoopNames == { "VectorTile", "Layer", "decodeValue", "Feature", "tags", "loadGeometry", "bbox" }

Pass(r, command, length) ==
    [pos |-> r.pos, err |-> r.err, command |-> command, length |-> length]

\* lines 28-32: the two uint32 and the Layer built between them
VectorTilePass(b, p) ==
    Only({ IF t.err # "" THEN Pass(t, 0, 0)
           ELSE Only({ IF n.err # "" THEN Pass(n, 0, 0)
                       ELSE Only({ Pass(layer, 0, 0) : layer \in { Layer(b, n.pos, n.v + n.pos) } })
                     : n \in { uint32(b, t.pos) } })
         : t \in { uint32(b, p) } })

\* lines 51-65
LayerPass(b, p) ==
    Only({ IF t.err # "" THEN Pass(t, 0, 0)
           ELSE Only({ Pass(L, 0, 0) : L \in { LayerField(b, NewLayer(t.pos), t) } })
         : t \in { tag(b, p) } })

\* lines 86-103
DecodeValuePass(b, p) ==
    Only({ IF t.err # "" THEN Pass(t, 0, 0)
           ELSE Only({ Pass(v, 0, 0) : v \in { ValueField(b, t) } })
         : t \in { tag(b, p) } })

\* lines 149-164
FeaturePass(b, p) ==
    Only({ IF t.err # "" THEN Pass(t, 0, 0)
           ELSE Only({ Pass(F, 0, 0) : F \in { FeatureField(b, <<>>, <<>>, NewFeature(t.pos, 0), t) } })
         : t \in { tag(b, p) } })

\* lines 155-157
TagsPass(b, p) ==
    Only({ IF k.err # "" THEN Pass(k, 0, 0) ELSE Pass(uint32(b, k.pos), 0, 0)
         : k \in { uint32(b, p) } })

\* the two deltas of a MoveTo or LineTo, lines 190-191 and 239-240
DeltasPass(b, G) ==
    Only({ IF dx.err # "" THEN Pass(dx, G.command, G.length)
           ELSE Pass(sint32(b, dx.pos), G.command, G.length) : dx \in { sint32(b, G.pos) } })

\* lines 189-205 and 238-245: only MoveTo and LineTo read
CommandPass(b, G) ==
    IF G.err # "" THEN G
    ELSE IF G.command = Command_MoveTo \/ G.command = Command_LineTo THEN DeltasPass(b, G)
    ELSE G

\* lines 181-185 and 231-235: the command integer read when no repetition
\* is pending, and the decrement that follows
CommandRead(c, command, length) ==
    IF c.err # "" THEN Pass(c, command, length) ELSE Pass(c, c.v % 8, (c.v \div 8) - 1)

\* a pass that leaves a pending repeat count as it is
GeometryPassKeepingCount(b, p, command, length) ==
    Only({ CommandPass(b, G) :
           G \in { IF length <= 0 THEN CommandRead(uint32(b, p), command, length)
                   ELSE Pass(Ok(p, 0), command, length) } })

\* one pass of the loop of loadGeometry (lines 181-205) or bbox (230-245):
\* a command integer is read when no repetition is pending, the count is
\* decremented, then the command runs
GeometryPass(b, p, command, length) ==
    Only({ CommandPass(b, G) :
           G \in { IF length <= 0 THEN CommandRead(uint32(b, p), command, length)
                   ELSE Pass(Ok(p, 0), command, length - 1) } })

\* before any loop is entered
InitLoops ==
    /\ buf = <<>>
    /\ pos = 0
    /\ tile = NoTile
    /\ scanned = <<>>
    /\ held = [h \in Handles |-> NoFeature]
    /\ ringList = <<>>
    /\ last = Outcome("none", "", <<>>, 0, Ok(0, 0))
    /\ loop = NoLoop

\* a loop is entered with the cursor at 0 and an end offset that is the
\* length of the buffer (line 26) or, for a declared length that overruns
\* it, more; the buffer may be cut inside a varint
Enter ==
    /\ loop = NoLoop
    /\ \E bs \in LoopBuffers(MaxBytes) : buf' \in { bs, Append(bs, Continued) }
    /\ pos' = 0
    /\ \E name \in LoopNames, over \in { 0, 1 } :
          /\ name = "VectorTile" => over = 0
          /\ loop' = [name |-> name, end |-> Len(buf') + over, done |-> FALSE, err |-> "",
                      command |-> IF name = "loadGeometry" THEN 1 ELSE 0, length |-> 0]
    /\ UNCHANGED <<tile, scanned, held, ringList, last>>

\* the body of `while (reader.pos < end)` has run once: a throw leaves the loop
Run(name, passes) ==
    /\ loop.name = name
    /\ ~loop.done
    /\ pos < loop.end
    /\ \E r \in passes :
          /\ pos' = r.pos
          /\ loop' = [loop EXCEPT !.done = r.err # "", !.err = r.err,
                                  !.command = r.command, !.length = r.length]
    /\ UNCHANGED <<buf, tile, scanned, held, ringList, last>>

RunVectorTile == Run("VectorTile", { VectorTilePass(buf, pos) })
RunLayer == Run("Layer", { LayerPass(buf, pos) })
RunDecodeValue == Run("decodeValue", { DecodeValuePass(buf, pos) })
RunFeature == Run("Feature", { FeaturePass(buf, pos) })
RunTags == Run("tags", { TagsPass(buf, pos) })
RunLoadGeometry == Run("loadGeometry", { GeometryPass(buf, pos, loop.command, loop.length) })
RunBbox == Run("bbox", { GeometryPass(buf, pos, loop.command, loop.length) })

\* `reader.pos < end` is false: the loop is left
Leave ==
    /\ ~loop.done
    /\ ~(pos < loop.end)
    /\ loop' = [loop EXCEPT !.done = TRUE]
    /\ UNCHANGED <<buf, pos, tile, scanned, held, ringList, last>>

NextLoops ==
    \/ Enter
    \/ RunVectorTile
    \/ RunLayer
    \/ RunDecodeValue
    \/ RunFeature
    \/ RunTags
    \/ RunLoadGeometry
    \/ RunBbox
    \/ Leave

\* the loops are sequential code: a loop that can make a pass makes it
SpecLoops == InitLoops /\ [][NextLoops]_vars /\ WF_vars(NextLoops)

----------------------------------------------------------------------------
(* Properties *)

\* the errors the reader throws on malformed bytes
FormatErrors ==
    { "premature EOF", "invalid varint", "illegal tag", "cant skip wire type",
      "invalid utf-8", "RangeError", "cannot convert to safe number" }

Called(op) == last.op = op
CalledLayer == tile.layers[last.layer]

\* C1 as stated: Layer.feature(index) succeeds and returns a Feature for
\* every index with 0 <= index < length, and fails with the out-of-range
\* error for every other index.
C1_AsStated ==
    Called("feature") =>
        IF 0 <= last.index /\ last.index < LayerLength(CalledLayer)
        THEN last.err = ""
        ELSE last.err = OutOfBounds

\* C1, amended: for an index with 0 <= index < length the call never fails
\* with the out-of-range error: it returns the Feature of that very index, or
\* fails with the reader's error when the feature's sub-message is malformed;
\* for every index outside the range (negative, the length, BigIndex) it
\* fails with the out-of-range error.
C1_FeatureIndexRange ==
    Called("feature") =>
        IF 0 <= last.index /\ last.index < LayerLength(CalledLayer)
        THEN /\ last.err # OutOfBounds
             /\ last.err \in FormatErrors \cup { "" }
             /\ last.err = "" =>
                  /\ held.f.layer = last.layer
                  /\ held.f.index = last.index
                  /\ held.f.F.extent = CalledLayer.extent
                  /\ pos > CalledLayer.featureOffsets[last.index + 1]
        ELSE last.err = OutOfBounds

\* an index far past the end is refused after an index inside was served
C1_Witness ==
    /\ Called("feature")
    /\ last.index = BigIndex
    /\ last.err = OutOfBounds
    /\ held.f.F.err = ""
    /\ held.f.index = LayerLength(CalledLayer) - 1

NonEmpty(L) == LayerLength(L) >= 1

\* C2 as stated: a layer sub-message is reachable as tile.layers[its name]
\* if and only if it has at least one feature.
C2_AsStated ==
    tile.made =>
        \A i \in 1..Len(scanned) :
            NonEmpty(scanned[i])
            <=> /\ scanned[i].name \in DOMAIN tile.layers
                /\ tile.layers[scanned[i].name] = scanned[i]

\* the last layer with features among those sharing a name
LastOfName(i) ==
    \A j \in (i + 1)..Len(scanned) :
        NonEmpty(scanned[j]) => scanned[j].name # scanned[i].name

\* C2, amended: every entry of tile.layers is a layer sub-message of the
\* input with at least one feature, stored under its own name (the empty
\* name when it carries none); a layer sub-message with features is
\* reachable under its name unless a later layer with features carries the
\* same name, which then replaces it; a layer without features is never an
\* entry.
C2_OnlyNonEmptyLayers ==
    tile.made =>
        /\ \A n \in DOMAIN tile.layers :
              /\ NonEmpty(tile.layers[n])
              /\ tile.layers[n].name = n
              /\ \E i \in 1..Len(scanned) : scanned[i] = tile.layers[n]
        /\ \A i \in 1..Len(scanned) :
              /\ (NonEmpty(scanned[i]) /\ LastOfName(i)) =>
                    /\ scanned[i].name \in DOMAIN tile.layers
                    /\ tile.layers[scanned[i].name] = scanned[i]
              /\ ~NonEmpty(scanned[i]) =>
                    \A n \in DOMAIN tile.layers : tile.layers[n] # scanned[i]

\* two layers with features share a name, and a third sub-message is empty
C2_Witness ==
    /\ tile.made
    /\ Len(scanned) = 2
    /\ NonEmpty(scanned[1]) /\ NonEmpty(scanned[2])
    /\ scanned[1].name = scanned[2].name
    /\ DOMAIN tile.layers = { scanned[2].name }

\* the call on a tile decoded afresh: build the tile, get the feature, call
FreshFeature(layer, index) ==
    feature(buf, VectorTile(buf).pos, VectorTile(buf).layers[layer], index)

FreshCall(op, F) ==
    IF op = "bbox" THEN bbox(buf, F.pos, F) ELSE loadGeometry(buf, F.pos, F)

SameOutcome(r) == last.err = r.err /\ last.v = r.v

\* C3: whatever calls came before and wherever they left the shared cursor,
\* loadGeometry() and bbox() on a feature return (or throw) what the first
\* such call on a freshly decoded tile returns (or throws).
C3_GeometryIgnoresCursor ==
    (Called("loadGeometry") \/ Called("bbox")) =>
        SameOutcome(FreshCall(last.op, FreshFeature(last.layer, last.index)))

\* bbox() on the older of two features, after the newer one was decoded
C3_Witness ==
    /\ Called("bbox")
    /\ last.h = "g"
    /\ last.err = ""
    /\ held.f.F.err = ""
    /\ held.f.index # held.g.index

\* the accessor returned, and what it returned is not null
Returns(r) == r.err = "" /\ ~r.v.null
ReturnsNull(r) == r.err = "" /\ r.v.null

NonNullCount(F) ==
    Cardinality({ op \in { "asPoints", "asLines", "asPolygons" } :
                    Returns(CASE op = "asPoints" -> asPoints(buf, pos, F)
                              [] op = "asLines" -> asLines(buf, pos, F)
                              [] OTHER -> asPolygons(buf, pos, F)) })

\* C4 as stated: on every decoded feature each of asPoints(), asLines() and
\* asPolygons() returns null when the feature's type does not match, and
\* exactly one of the three returns a non-null value.
C4_AsStated ==
    \A h \in Handles :
        Held(h) =>
            /\ held[h].F.type # FeatureType_POINT => ReturnsNull(asPoints(buf, pos, held[h].F))
            /\ held[h].F.type # FeatureType_LINESTRING => ReturnsNull(asLines(buf, pos, held[h].F))
            /\ held[h].F.type # FeatureType_POLYGON => ReturnsNull(asPolygons(buf, pos, held[h].F))
            /\ NonNullCount(held[h].F) = 1

\* C4, amended: on every decoded feature asLines() and asPolygons() return
\* null when the type is not LINESTRING, not POLYGON; asPoints() decodes the
\* geometry before it looks at the type, so it fails exactly when
\* loadGeometry() fails and returns null when the type is not POINT and the
\* geometry decodes; at most one of the three returns a non-null value, and
\* exactly one does if and only if the type is POINT, LINESTRING or POLYGON
\* and the geometry decodes (with type UNKNOWN, or a type the enumeration
\* does not name, none does).  A call made returns what is said here.
C4_AtMostOneAccessor ==
    /\ \A h \in Handles :
          Held(h) =>
              /\ asPoints(buf, pos, held[h].F).err = loadGeometry(buf, pos, held[h].F).err
              /\ (held[h].F.type # FeatureType_POINT /\ loadGeometry(buf, pos, held[h].F).err = "")
                     => ReturnsNull(asPoints(buf, pos, held[h].F))
              /\ held[h].F.type # FeatureType_LINESTRING => ReturnsNull(asLines(buf, pos, held[h].F))
              /\ held[h].F.type # FeatureType_POLYGON => ReturnsNull(asPolygons(buf, pos, held[h].F))
              /\ NonNullCount(held[h].F) <= 1
              /\ NonNullCount(held[h].F) = 1
                    <=> /\ held[h].F.type \in { FeatureType_POINT, FeatureType_LINESTRING,
                                                FeatureType_POLYGON }
                        /\ loadGeometry(buf, pos, held[h].F).err = ""
    /\ Called("asPoints") => SameOutcome(asPoints(buf, pos, held[last.h].F))
    /\ Called("asLines") => SameOutcome(asLines(buf, pos, held[last.h].F))
    /\ Called("asPolygons") => SameOutcome(asPolygons(buf, pos, held[last.h].F))

\* asPolygons() has returned null on a feature of type UNKNOWN, on which
\* asPoints() and asLines() return null as well
C4_Witness ==
    /\ Called("asPolygons")
    /\ held[last.h].F.type = FeatureType_UNKNOWN
    /\ last.err = "" /\ last.v.null
    /\ NonNullCount(held[last.h].F) = 0
    /\ held[last.h].F.geometryOffset > 0

\* the index pairs a feature sub-message carries in its tags fields, read off
\* the bytes as the constructor walks them: [pos, pairs], pos -1 once a read
\* has failed
RECURSIVE WirePairs(_, _, _, _)
WirePairs(b, p, end, pairs) ==
    IF ~(p < end) THEN [pos |-> p, pairs |-> pairs]
    ELSE LET k == uint32(b, p)
             v == uint32(b, k.pos)
         IN  IF k.err # "" \/ v.err # "" THEN [pos |-> -1, pairs |-> pairs]
             ELSE WirePairs(b, v.pos, end, pairs \cup { [key |-> k.v, value |-> v.v] })

RECURSIVE WireTags(_, _, _, _)
WireTags(b, p, end, pairs) ==
    IF p < 0 \/ ~(p < end) THEN pairs
    ELSE LET t == tag(b, p)
             n == uint32(b, t.pos)
             w == WirePairs(b, n.pos, n.v + n.pos, pairs)
             s == CASE t.fieldId = 1 -> int64(b, t.pos)
                    [] t.fieldId = 3 -> n
                    [] t.fieldId = 4 -> skip(b, t.pos, t.wireType)
                    [] OTHER -> Ok(t.pos, 0)
         IN  IF t.err # "" THEN pairs
             ELSE IF t.fieldId = 2
             THEN IF n.err # "" THEN pairs ELSE WireTags(b, w.pos, end, w.pairs)
             ELSE IF s.err # "" THEN pairs ELSE WireTags(b, s.pos, end, pairs)

\* the index pairs of the feature at `offset`
TagsAt(b, offset) ==
    LET n == uint32(b, offset)
    IN  IF n.err # "" THEN {} ELSE WireTags(b, n.pos, n.v + n.pos, {})

IndexOutOfRange(L, pairs) ==
    \E pair \in pairs : pair.key >= Len(L.keys) \/ pair.value >= Len(L.values)

\* C5 as stated: when the tags of a feature hold a key index >= the size of
\* the layer's key table or a value index >= the size of its value table,
\* Layer.feature(index) fails with a format error; no Feature is returned
\* whose properties hold a substituted or missing key or value.
C5_AsStated ==
    /\ (/\ Called("feature")
         /\ InRange(CalledLayer, last.index)
         /\ IndexOutOfRange(CalledLayer,
                            TagsAt(buf, CalledLayer.featureOffsets[last.index + 1])))
           => last.err \in FormatErrors
    /\ \A h \in Handles :
          Held(h) =>
              \A k \in DOMAIN held[h].F.properties :
                  k # UndefinedKey /\ held[h].F.properties[k] # Undefined

\* the rings classifyRings is to keep, in input order: every ring of positive
\* area, and every ring of negative area that comes after one
RECURSIVE Expected(_, _)
Expected(rings, started) ==
    IF rings = <<>> THEN <<>>
    ELSE IF signedArea(Head(rings)) > 0 THEN <<Head(rings)>> \o Expected(Tail(rings), TRUE)
    ELSE IF signedArea(Head(rings)) < 0 /\ started
    THEN <<Head(rings)>> \o Expected(Tail(rings), TRUE)
    ELSE Expected(Tail(rings), started)

Positive(rings) == { i \in 1..Len(rings) : signedArea(rings[i]) > 0 }

\* C6: on two or more rings classifyRings returns as many polygons as there
\* are rings of positive area; every polygon starts with a ring of positive
\* area and holds only rings of negative area after it; and the rings of the
\* polygons, read in order, are the input's rings of positive area and its
\* rings of negative area that follow one, in input order (so a ring of
\* negative area goes to the polygon of the nearest ring of positive area
\* before it, and is discarded when there is none).
C6_PolygonsByWinding ==
    (Called("classifyRings") /\ Len(ringList) >= 2) =>
        /\ Len(last.v) = Cardinality(Positive(ringList))
        /\ \A k \in 1..Len(last.v) :
              /\ Len(last.v[k]) >= 1
              /\ signedArea(last.v[k][1]) > 0
              /\ \A j \in 2..Len(last.v[k]) : signedArea(last.v[k][j]) < 0
        /\ Flatten(last.v) = Expected(ringList, FALSE)

\* a hole with no polygon before it, an outer ring, then its hole
C6_Witness ==
    /\ Called("classifyRings")
    /\ Len(ringList) = 3
    /\ signedArea(ringList[1]) < 0
    /\ signedArea(ringList[2]) > 0
    /\ signedArea(ringList[3]) < 0
    /\ last.v = << <<ringList[2], ringList[3]>> >>

\* C7 as stated: classifyRings never returns a ring of zero area, whatever
\* the length of the input, and a single ring of positive area gives one
\* polygon made of that ring.
C7_AsStated ==
    Called("classifyRings") =>
        /\ \A k \in 1..Len(last.v) :
              \A j \in 1..Len(last.v[k]) : signedArea(last.v[k][j]) # 0
        /\ (Len(ringList) = 1 /\ signedArea(ringList[1]) > 0) => last.v = <<ringList>>

\* C7, amended: on two or more rings classifyRings returns no ring of zero
\* area; on at most one ring it returns the input wrapped as one polygon
\* with no area test, so a single ring comes back as the only ring of the
\* only polygon whether its area is positive, negative or zero.
C7_ZeroAreaDropped ==
    Called("classifyRings") =>
        IF Len(ringList) >= 2
        THEN \A k \in 1..Len(last.v) :
                 \A j \in 1..Len(last.v[k]) : signedArea(last.v[k][j]) # 0
        ELSE last.v = <<ringList>>

\* an outer ring followed by a ring of zero area: the second is dropped
C7_Witness ==
    /\ Called("classifyRings")
    /\ Len(ringList) = 2
    /\ signedArea(ringList[1]) > 0
    /\ signedArea(ringList[2]) = 0
    /\ last.v = << <<ringList[1]>> >>

\* the elements of a feature (points, lines or polygons, after the type),
\* projected for the tile `args` = <<x, y, zoom>>
Elements(F, args) ==
    LET x0 == F.extent * args[1]
        y0 == F.extent * args[2]
        size == F.extent * Pow2(args[3])
        ps == asPoints(buf, pos, F).v.v
        ls == asLines(buf, pos, F).v.v
        gs == asPolygons(buf, pos, F).v.v
    IN  CASE F.type = FeatureType_POINT -> project(ps, x0, y0, size)
          [] F.type = FeatureType_LINESTRING ->
                [i \in 1..Len(ls) |-> project(ls[i], x0, y0, size)]
          [] F.type = FeatureType_POLYGON ->
                [i \in 1..Len(gs) |-> [j \in 1..Len(gs[i]) |-> project(gs[i][j], x0, y0, size)]]

SingleName(F) ==
    CASE F.type = FeatureType_POINT -> "Point"
      [] F.type = FeatureType_LINESTRING -> "LineString"
      [] F.type = FeatureType_POLYGON -> "Polygon"

MultiName(F) ==
    CASE F.type = FeatureType_POINT -> "MultiPoint"
      [] F.type = FeatureType_LINESTRING -> "MultiLineString"
      [] F.type = FeatureType_POLYGON -> "MultiPolygon"

\* C8: toGeoJSON returns for a POINT, LINESTRING or POLYGON feature only,
\* and names the geometry by the number of elements: with exactly one point, line or polygon the type is Point,
\* LineString or Polygon and the coordinates are that one element,
\* unwrapped; with several (for a POINT feature: with any other number) the
\* type is MultiPoint, MultiLineString or MultiPolygon and the coordinates
\* are the list of all elements.
C8_GeometryByCount ==
    (Called("toGeoJSON") /\ last.err = "") =>
        /\ held[last.h].F.type \in { FeatureType_POINT, FeatureType_LINESTRING,
                                     FeatureType_POLYGON }
        /\ Len(Elements(held[last.h].F, last.args)) = 1 =>
              last.v.geometry = [type |-> SingleName(held[last.h].F),
                                 coordinates |-> Elements(held[last.h].F, last.args)[1]]
        /\ (\/ Len(Elements(held[last.h].F, last.args)) >= 2
            \/ /\ held[last.h].F.type = FeatureType_POINT
               /\ Len(Elements(held[last.h].F, last.args)) # 1) =>
              last.v.geometry = [type |-> MultiName(held[last.h].F),
                                 coordinates |-> Elements(held[last.h].F, last.args)]

\* a POLYGON feature whose rings classify into two polygons
C8_Witness ==
    /\ Called("toGeoJSON")
    /\ last.err = ""
    /\ held[last.h].F.type = FeatureType_POLYGON
    /\ last.v.geometry.type = "MultiPolygon"
    /\ Len(last.v.geometry.coordinates) = 2
    /\ last.args[3] = MaxZoom

\* the layer sub-messages of a buffer as the wire format frames them: a tag,
\* a length, and the body [start, end)
RECURSIVE Frames(_, _)
Frames(b, p) ==
    IF ~(p < Len(b)) THEN <<>>
    ELSE LET t == uint32(b, p)
             n == uint32(b, t.pos)
         IN  IF t.err # "" \/ n.err # "" THEN <<>>
             ELSE <<[start |-> n.pos, end |-> n.v + n.pos]>> \o Frames(b, n.v + n.pos)

\* the sub-message [p, end) carries the field `id`
RECURSIVE HasField(_, _, _, _)
HasField(b, p, end, id) ==
    IF ~(p < end) THEN FALSE
    ELSE LET t == tag(b, p)
             s == skip(b, t.pos, t.wireType)
         IN  IF t.err # "" THEN FALSE
             ELSE \/ t.fieldId = id
                  \/ s.err = "" /\ HasField(b, s.pos, end, id)

\* C9 as stated: a layer decoded from a sub-message without the version
\* field (15) has version 1, one decoded from a sub-message without the
\* extent field (5) has extent 4096; the extent of every layer, and of every
\* feature made from it, is positive.
C9_AsStated ==
    /\ (tile.made /\ Len(Frames(buf, 0)) = Len(scanned)) =>
          \A i \in 1..Len(scanned) :
              /\ ~HasField(buf, Frames(buf, 0)[i].start, Frames(buf, 0)[i].end, 15)
                    => scanned[i].version = 1
              /\ ~HasField(buf, Frames(buf, 0)[i].start, Frames(buf, 0)[i].end, 5)
                    => scanned[i].extent = 4096
              /\ scanned[i].extent > 0
    /\ \A h \in Handles : Held(h) => held[h].F.extent > 0

\* C10 as stated: when the construction of the tile fails in layer k, the
\* layers decoded before layer k stay usable: each of them that has features
\* is reachable as tile.layers[its name] (the last of a name, when several
\* share one).
C10_AsStated ==
    (Called("VectorTile") /\ last.err # "") =>
        \A i \in 1..Len(scanned) :
            (NonEmpty(scanned[i]) /\ LastOfName(i)) =>
                /\ tile.made
                /\ scanned[i].name \in DOMAIN tile.layers
                /\ tile.layers[scanned[i].name] = scanned[i]

\* C11 as stated: toGeoJSON(x, y, zoom) on a decoded feature whose geometry
\* decodes returns, without raising, an object of type 'Feature' with the
\* feature's properties and, when there is one, its id; also for a feature
\* of type UNKNOWN or of a type the enumeration does not name, and for one
\* with an empty geometry.
C11_AsStated ==
    (Called("toGeoJSON") /\ loadGeometry(buf, pos, held[last.h].F).err = "") =>
        /\ last.err = ""
        /\ last.v.type = "Feature"
        /\ last.v.properties = held[last.h].F.properties
        /\ last.v.hasId = held[last.h].F.hasId
        /\ held[last.h].F.hasId => last.v.id = held[last.h].F.id

\* C12 as stated: the type of a decoded feature is always one of UNKNOWN,
\* POINT, LINESTRING and POLYGON; a code outside 1..3 in field 3 gives a
\* feature of type UNKNOWN.
C12_AsStated ==
    \A h \in Handles :
        Held(h) =>
            held[h].F.type \in { FeatureType_UNKNOWN, FeatureType_POINT,
                                 FeatureType_LINESTRING, FeatureType_POLYGON }

\* the sub-message [p, end) without the fields whose number is not in
\* `known`, each removed as a whole after its wire type
RECURSIVE Strip(_, _, _, _)
Strip(b, p, end, known) ==
    IF ~(p < end) THEN <<>>
    ELSE LET t == tag(b, p)
             s == skip(b, t.pos, t.wireType)
         IN  IF t.err # "" \/ s.err # "" \/ s.pos > end THEN SubSeq(b, p + 1, end)
             ELSE IF t.fieldId \in known
             THEN SubSeq(b, p + 1, s.pos) \o Strip(b, s.pos, end, known)
             ELSE Strip(b, s.pos, end, known)

LayerFields == { 15, 1, 5, 2, 3, 4 }
FeatureFields == { 1, 2, 3, 4 }

\* the layer decoded from the frame fr with its unknown fields removed
StrippedLayer(fr) ==
    Layer(Strip(buf, fr.start, fr.end, LayerFields), 0,
          Len(Strip(buf, fr.start, fr.end, LayerFields)))

\* the feature decoded from the sub-message whose length prefix is n, with
\* its unknown fields removed
StrippedFeature(L, n) ==
    Feature(Strip(buf, n.pos, n.v + n.pos, FeatureFields), 0,
            Len(Strip(buf, n.pos, n.v + n.pos, FeatureFields)),
            L.keys, L.values, L.extent)

SameLayer(L, R) ==
    /\ L.name = R.name /\ L.version = R.version /\ L.extent = R.extent
    /\ L.keys = R.keys /\ L.values = R.values
    /\ Len(L.featureOffsets) = Len(R.featureOffsets)

SameFeature(F, R) ==
    /\ F.type = R.type /\ F.properties = R.properties
    /\ F.hasId = R.hasId /\ F.id = R.id

\* C13 as stated: a layer or feature sub-message that carries a field of
\* an unknown number decodes to the layer or feature that the same
\* sub-message without that field decodes to (the field is skipped after its
\* wire type, its payload is never read as a tag or a value).
C13_AsStated ==
    /\ last.op # "none" =>
          \A i \in 1..Len(Frames(buf, 0)) :
              (/\ Frames(buf, 0)[i].end <= Len(buf)
               /\ Len(Strip(buf, Frames(buf, 0)[i].start, Frames(buf, 0)[i].end, LayerFields))
                     < Frames(buf, 0)[i].end - Frames(buf, 0)[i].start
               /\ StrippedLayer(Frames(buf, 0)[i]).err = "")
                => /\ i <= Len(scanned)
                   /\ SameLayer(scanned[i], StrippedLayer(Frames(buf, 0)[i]))
    /\ (Called("feature") /\ InRange(CalledLayer, last.index)) =>
          LET n == uint32(buf, CalledLayer.featureOffsets[last.index + 1])
          IN  Len(Strip(buf, n.pos, n.v + n.pos, FeatureFields)) < n.v =>
                  /\ (last.err = "") = (StrippedFeature(CalledLayer, n).err = "")
                  /\ last.err = "" => SameFeature(held.f.F, StrippedFeature(CalledLayer, n))

\* the repetitions of a command stream [p, end), one [command, dx, dy] per
\* repetition, read off the bytes: a command integer when no repetition is
\* pending, then two zigzag deltas for a MoveTo (1) or LineTo (2)
RECURSIVE Steps(_, _, _, _, _)
Steps(b, p, end, command, pending) ==
    IF ~(p < end) THEN <<>>
    ELSE LET c == uint32(b, p)
             cmd == IF pending <= 0 THEN c.v % 8 ELSE command
             n == (IF pending <= 0 THEN c.v \div 8 ELSE pending) - 1
             q == IF pending <= 0 THEN c.pos ELSE p
             dx == sint32(b, q)
             dy == sint32(b, dx.pos)
         IN  IF cmd \in { 1, 2 }
             THEN <<[command |-> cmd, dx |-> dx.v, dy |-> dy.v]>> \o Steps(b, dy.pos, end, cmd, n)
             ELSE <<[command |-> cmd, dx |-> 0, dy |-> 0]>> \o Steps(b, q, end, cmd, n)

\* the repetitions of the geometry of a feature
StepsOf(F) ==
    LET n == uint32(buf, F.geometryOffset)
    IN  Steps(buf, n.pos, n.v + n.pos, 1, 0)

\* the running point after the first k repetitions, from (0, 0)
RECURSIVE Running(_, _)
Running(steps, k) ==
    IF k = 0 THEN Point(0, 0)
    ELSE Point(Running(steps, k - 1).x + steps[k].dx, Running(steps, k - 1).y + steps[k].dy)

\* the indices of the MoveTo repetitions, in stream order
RECURSIVE MoveTos(_, _)
MoveTos(steps, k) ==
    IF k > Len(steps) THEN <<>>
    ELSE (IF steps[k].command = 1 THEN <<k>> ELSE <<>>) \o MoveTos(steps, k + 1)

\* the points the repetitions k..to put on a line that began at `first`
RECURSIVE PointsFrom(_, _, _, _)
PointsFrom(steps, k, to, first) ==
    IF k > to THEN <<>>
    ELSE (CASE steps[k].command \in { 1, 2 } -> <<Running(steps, k)>>
            [] steps[k].command = 7 -> <<first>>
            [] OTHER -> <<>>) \o PointsFrom(steps, k + 1, to, first)

\* one line per MoveTo: what lies between it and the next MoveTo
LinesOfSteps(steps) ==
    LET ms == MoveTos(steps, 1)
    IN  [i \in 1..Len(ms) |->
            PointsFrom(steps, ms[i],
                       IF i < Len(ms) THEN ms[i + 1] - 1 ELSE Len(steps),
                       Running(steps, ms[i]))]

\* C14: a loadGeometry() that returns gives one line per MoveTo repetition,
\* in stream order; with the running point starting at (0, 0) and every
\* MoveTo and LineTo repetition adding its deltas to it, a line begins with
\* the running point of its MoveTo, a LineTo adds the running point to the
\* open line, a ClosePath reads no deltas and adds a copy of the line's
\* first point, and a LineTo or ClosePath before the first MoveTo adds
\* nothing; so every line is non-empty and starts at a MoveTo point.
C14_LinesOfCommands ==
    (Called("loadGeometry") /\ last.err = "") =>
        /\ last.v = LinesOfSteps(StepsOf(held[last.h].F))
        /\ \A i \in 1..Len(last.v) : Len(last.v[i]) >= 1

\* two closed rings: each MoveTo opened a line, each ClosePath closed it
C14_Witness ==
    /\ Called("loadGeometry")
    /\ last.err = ""
    /\ Len(last.v) = 2
    /\ Len(last.v[1]) = 4
    /\ last.v[1][4] = last.v[1][1]
    /\ last.v[2][1] # last.v[1][1]

\* C15 as stated: loadGeometry() and bbox() of a feature read inside the
\* geometry sub-message of that feature only: the length prefix they start
\* at lies in the feature's own sub-message, the end it declares does too,
\* and the cursor is never left past that end.
C15_AsStated ==
    (Called("loadGeometry") \/ Called("bbox")) =>
        LET F == held[last.h].F
            f == uint32(buf, CalledLayer.featureOffsets[last.index + 1])
            n == uint32(buf, F.geometryOffset)
        IN  /\ f.pos <= F.geometryOffset
            /\ F.geometryOffset < f.v + f.pos
            /\ n.v + n.pos <= f.v + f.pos
            /\ pos <= n.v + n.pos

MinOf(S) == CHOOSE m \in S : \A n \in S : m <= n
MaxOf(S) == CHOOSE m \in S : \A n \in S : m >= n

\* the smallest box around a non-empty set of points
BoxAround(points) ==
    <<MinOf({ pt.x : pt \in points }), MinOf({ pt.y : pt \in points }),
      MaxOf({ pt.x : pt \in points }), MaxOf({ pt.y : pt \in points })>>

\* every point of every line
PointsIn(lines) ==
    UNION { { lines[i][j] : j \in 1..Len(lines[i]) } : i \in 1..Len(lines) }

\* the running points of the MoveTo and LineTo repetitions
Visited(steps) == { Running(steps, k) : k \in { j \in 1..Len(steps) : steps[j].command \in { 1, 2 } } }

\* no LineTo comes before the first MoveTo
MoveToFirst(steps) ==
    \A k \in 1..Len(steps) :
        steps[k].command = 2 => \E j \in 1..(k - 1) : steps[j].command = 1

\* C17 as stated: a bbox() that returns gives xMin <= xMax and
\* yMin <= yMax, and the smallest box around the points that loadGeometry()
\* returns for the feature, for every command stream.
C17_AsStated ==
    (Called("bbox") /\ last.err = "") =>
        /\ last.v[1] <= last.v[3]
        /\ last.v[2] <= last.v[4]
        /\ PointsIn(loadGeometry(buf, pos, held[last.h].F).v) # {} =>
              last.v = BoxAround(PointsIn(loadGeometry(buf, pos, held[last.h].F).v))

\* C17, amended: a bbox() that returns gives the smallest box around the
\* running points of all MoveTo and LineTo repetitions of the stream.  When
\* the stream has at least one such repetition and no LineTo before its
\* first MoveTo, these are the points loadGeometry() returns, so the box is
\* the smallest box around them and xMin <= xMax, yMin <= yMax.  A LineTo
\* before the first MoveTo counts for the box although loadGeometry() drops
\* its point; with no MoveTo or LineTo at all the result is
\* [MAX_SAFE_INTEGER, MAX_SAFE_INTEGER, MIN_SAFE_INTEGER, MIN_SAFE_INTEGER].
C17_BoxOfVisited ==
    (Called("bbox") /\ last.err = "") =>
        /\ last.v = IF Visited(StepsOf(held[last.h].F)) = {}
                    THEN <<MAX_SAFE_INTEGER, MAX_SAFE_INTEGER,
                           MIN_SAFE_INTEGER, MIN_SAFE_INTEGER>>
                    ELSE BoxAround(Visited(StepsOf(held[last.h].F)))
        /\ (/\ Visited(StepsOf(held[last.h].F)) # {}
            /\ MoveToFirst(StepsOf(held[last.h].F))) =>
              /\ loadGeometry(buf, pos, held[last.h].F).err = ""
              /\ last.v = BoxAround(PointsIn(loadGeometry(buf, pos, held[last.h].F).v))
              /\ last.v[1] <= last.v[3] /\ last.v[2] <= last.v[4]

\* a stream of two LineTo and no MoveTo: a box, and no line
C17_Witness ==
    /\ Called("bbox")
    /\ last.err = ""
    /\ loadGeometry(buf, pos, held[last.h].F).v = <<>>
    /\ last.v[1] < last.v[3]
    /\ last.v[2] < last.v[4]

\* C16: every decoding loop (of the tile, a layer, a value, a feature, its
\* tags, loadGeometry and bbox) is left after finitely many passes on every
\* buffer, by its end offset or by a throw: every pass either leaves the
\* loop, or advances the cursor, or leaves the cursor where it is and takes
\* one off a positive pending repeat count.
C16_LoopsTerminate ==
    /\ [][~loop.done =>
              \/ loop'.done
              \/ pos' > pos
              \/ pos' = pos /\ loop.length > 0 /\ loop'.length = loop.length - 1]_vars
    /\ (~loop.done) ~> loop.done

\* a geometry loop in the middle of the repetitions of a ClosePath, which
\* reads nothing: one pending, bytes left
C16_Witness ==
    /\ loop.name \in { "loadGeometry", "bbox" }
    /\ ~loop.done
    /\ loop.command = Command_ClosePath
    /\ loop.length = 1
    /\ pos < loop.end

====
